---- MODULE Spec2Model ----
(***************************************************************************)
(* Model of the AX5043 L-band receiver: the packet reassembler             *)
(* (process_chunk / read_packet) and the event loop of                     *)
(* src/ax5043/src/bin/lband.rs, with the older receiver of                 *)
(* src/ax5043/examples/lband.rs beside it; the bring-up sequences          *)
(* (configure_radio_rx) of bin/lband.rs, examples/lband.rs and             *)
(* config_rpi.rs as the configuration calls they make, in order;           *)
(* RXParameters::write of examples/lband.rs with its register arithmetic;  *)
(* and the status callback main hands to the register layer.               *)
(*                                                                         *)
(* Environment: every register, GPIO and poll call can return an error     *)
(* (the `?` paths of main).  The uplink is a connected UDP socket; the     *)
(* sink takes every datagram handed to it (the delivery transport is a     *)
(* collaborator), so `uplink` is the list of datagrams sent so far.        *)
(***************************************************************************)
EXTENDS Integers, Sequences, FiniteSets, TLC

\* ------------------------------------------------------------------------
\* Bounds of the model
\* ------------------------------------------------------------------------
MaxChunk == 2
MaxPacket == 4
MaxSent == 2
MaxFifo == 2
MaxRx == 3
MaxSnapshots == 1

\* ------------------------------------------------------------------------
\* Bit arithmetic on 16-bit words
\* ------------------------------------------------------------------------
RECURSIVE XorBits(_, _, _)
XorBits(a, b, n) ==
    IF n = 0 THEN 0
    ELSE ((a + b) % 2) + 2 * XorBits(a \div 2, b \div 2, n - 1)

Xor16(a, b) == XorBits(a, b, 16)

\* ------------------------------------------------------------------------
\* CRC-16/GENIBUS as Crc::<u16>::new(&CRC_16_GENIBUS) computes it:
\* width 16, poly 0x1021, init 0xFFFF, no reflection, xorout 0xFFFF.
\* ------------------------------------------------------------------------
CrcPoly == 4129
CrcInit == 65535
CrcXorOut == 65535

RECURSIVE CrcShift(_, _)
CrcShift(crc, n) ==
    IF n = 0 THEN crc
    ELSE CrcShift(IF crc >= 32768
                     THEN Xor16((crc * 2) % 65536, CrcPoly)
                     ELSE (crc * 2) % 65536,
                  n - 1)

\* the 256-entry lookup table of the crc crate: entry i is the remainder
\* of the byte i shifted through the polynomial
CrcTable == [i \in 0..255 |-> CrcShift(i * 256, 8)]

CrcByte(crc, b) ==
    Xor16((crc * 256) % 65536, CrcTable[XorBits(crc \div 256, b, 8)])

RECURSIVE CrcUpdate(_, _)
CrcUpdate(crc, bytes) ==
    IF bytes = << >> THEN crc
    ELSE CrcUpdate(CrcByte(crc, Head(bytes)), Tail(bytes))

crc16_genibus(bytes) == Xor16(CrcUpdate(CrcInit, bytes), CrcXorOut)

from_be_bytes_le(b0, b1) == b1 * 256 + b0

from_be_bytes(b0, b1) == b0 * 256 + b1

\* the two bytes a transmitter appends to payload p
ChecksumBytes(p) ==
    LET c == crc16_genibus(p) IN << c \div 256, c % 256 >>


\* ------------------------------------------------------------------------
\* FIFO chunks (FIFOChunkRX) and the chunks the chip is made to deliver
\* ------------------------------------------------------------------------
\* the flags that mark a chunk as rejected by the chip
RejectFlags == {"ABORT", "SIZEFAIL", "ADDRFAIL", "CRCFAIL", "RESIDUE"}

DataChunk(f, d) == [kind |-> "DATA", flags |-> f, data |-> d]

\* a FIFO chunk that is not FIFOChunkRX::DATA (RSSI, TIMER, ...)
OtherChunk == [kind |-> "RSSI", flags |-> {}, data |-> << >>]

BaseBytes == {73}
SamplePayload == <<73, 73>>
ByteSet == BaseBytes \cup {ChecksumBytes(SamplePayload)[1],
                           ChecksumBytes(SamplePayload)[2]}

SeqsUpTo(S, n) == UNION {[1..k -> S] : k \in 0..n}

CleanFlagInputs == SUBSET {"PKTSTART", "PKTEND"}

RejectFlagInputs ==
    {sp \cup {r} : sp \in SUBSET {"PKTSTART", "PKTEND"}, r \in RejectFlags}

\* every payload for the chunks without a reject flag; an empty and a
\* one-byte payload for the chunks with one
ChunkInputs ==
    {DataChunk(f, d) : f \in CleanFlagInputs,
                       d \in SeqsUpTo(ByteSet, MaxChunk)}
        \cup {DataChunk(f, d) : f \in RejectFlagInputs,
                                d \in SeqsUpTo(BaseBytes, 1)}
        \cup {OtherChunk}

\* ------------------------------------------------------------------------
\* State
\* ------------------------------------------------------------------------
VARIABLES
    pc,          \* position of main
    packet,      \* the accumulator `packet: Vec<u8>`
    uplink,      \* datagrams sent to the uplink sink, in order
    result,      \* outcome of the last receiver call: "Ok", "Err", "Panic"
    events,      \* readiness events of the current poll batch, unhandled
    chunks,      \* chunks read by read_packet and not yet processed
    pa_enable,   \* power amplifier enable line
    telemetry,   \* TRUE iff a telemetry sink is configured
    mode,        \* chip power mode: "off", "reset", "config", "rx"
    irqmask,     \* TRUE iff IRQMASK holds FIFONOTEMPTY
    fifo,        \* chunks waiting in the chip's FIFO
    irqEdge,     \* a rising-edge event is queued on the interrupt line
    sigReady,    \* the termination signal is ready
    timerReady,  \* the telemetry timer has expired
    rx,          \* number of chunks the chip has received so far
    \* history of the inputs, used to state the properties
    last,        \* what the last step did to the reassembler
    since,       \* payload bytes of the chunks since the last PKTSTART chunk
    runChunks,   \* k > 0: the last k chunks are a clean run from a PKTSTART
    runClosed,   \* the clean run ended with PKTEND in the last step
    rej,         \* "rejected" after a reject mid-accumulation, "restarted"
                 \* after the next PKTSTART, "done" at that packet's PKTEND
    sigInDrain,  \* the termination signal became ready during a drain
    nread,       \* chunks read from the FIFO by read_packet
    nproc,       \* chunks passed to process_chunk
    sigHandled,  \* the SIGINT readiness event was handled
    clean,       \* no reject-flagged chunk and no PKTEND chunk since (and
                 \* including) the most recent PKTSTART chunk
    \* bring-up
    prog,        \* the program run: "bin", "example", or "rpi" for
                 \* config_rpi.rs's configure_radio_rx on its own
    rev,         \* <<rev>>, the REVISION register as read (<< >> before)
    wrote,       \* the configuration writes made so far, in order
    tfd,         \* interval (ms) the telemetry timer is armed with, 0 = off
    \* history of the event loop
    snapshots,   \* state snapshots sent to the telemetry sink
    received,    \* chunks the chip has put into its FIFO, in order
    processed,   \* chunks given to process_chunk, in order
    lost,        \* chunks were discarded unread (FIFO clear, reset, error)
    acks,        \* interrupt edge events acknowledged
    pending,     \* chunks the chip had queued when the current poll batch
                 \* was returned with the interrupt ready in it (0 without)
    \* the status callback given to Registers::new
    status,      \* `status`, the last status the callback recorded
    notes,       \* status notifications emitted, in order
    reported,    \* <<s>>, the status of the last register operation
    ops,         \* register operations so far
    \* RXParameters::write of examples/lband.rs
    board,       \* board.xtal: [freq, div]
    channel,     \* channel: [datarate]
    params,      \* RXParameters::MSK { freq_offs_corr, .. }, `self`
    radio,       \* the registers written by RXParameters::write
    wpc          \* position of RXParameters::write

rxvars == <<packet, uplink, result>>
hist == <<last, since, runChunks, runClosed, rej, clean>>
bringup == <<prog, rev, wrote, tfd>>
loophist == <<snapshots, received, processed, lost, acks, pending>>
statvars == <<status, notes, reported, ops>>
rxpvars == <<board, channel, params, radio, wpc>>
loopvars == <<pc, events, chunks, pa_enable, telemetry, mode, irqmask, fifo,
              irqEdge, sigReady, timerReady, rx, sigInDrain, nread, nproc,
              sigHandled, bringup, loophist, rxpvars, statvars>>
vars == <<rxvars, hist, loopvars>>

\* ------------------------------------------------------------------------
\* process_chunk (src/bin/lband.rs)
\* ------------------------------------------------------------------------
Outcome(p, u, r) == [packet |-> p, uplink |-> u, result |-> r]

intersects(flags, mask) == flags \cap mask # {}

\* a mask that misses RESIDUE (not the code)
reject_mask_NoResidue == {"ABORT", "SIZEFAIL", "ADDRFAIL", "CRCFAIL"}

\* lines 174-178: the mask given to flags.intersects
reject_mask == {"ABORT", "SIZEFAIL", "ADDRFAIL", "CRCFAIL", "RESIDUE"}

\* a PKTEND arm that forwards without comparing the checksum (not the code)
pkt_end_NoCheck(p, up) ==
    IF Len(p) < 2
    THEN Outcome(p, up, "Panic")
    ELSE Outcome(<< >>, Append(up, SubSeq(p, 1, Len(p) - 2)), "Ok")

\* a PKTEND arm that clears the accumulator only after a send (not the code)
pkt_end_KeepOnMismatch(p, up) ==
    IF Len(p) < 2
    THEN Outcome(p, up, "Panic")
    ELSE LET body == SubSeq(p, 1, Len(p) - 2)
             checksum == from_be_bytes(p[Len(p) - 1], p[Len(p)])
             calculated == crc16_genibus(body)
         IN  IF calculated = checksum
             THEN Outcome(<< >>, Append(up, body), "Ok")
             ELSE Outcome(body, up, "Ok")

\* lines 207-225: the PKTEND arm, p is the accumulator after write_all
pkt_end(p, up) ==
    IF Len(p) < 2
    THEN Outcome(p, up, "Panic")        \* split_off(len - 2), len < 2
    ELSE LET body == SubSeq(p, 1, Len(p) - 2)
             checksum == from_be_bytes(p[Len(p) - 1], p[Len(p)])
             calculated == crc16_genibus(body)
         IN  IF calculated = checksum
             THEN Outcome(<< >>, Append(up, body), "Ok")
             ELSE Outcome(<< >>, up, "Ok")

\* process_chunk without the test of lines 201-204 (not the code)
process_chunk_NoContinuationTest(chunk, pkt, up) ==
    IF chunk.kind # "DATA" THEN Outcome(pkt, up, "Ok")
    ELSE IF intersects(chunk.flags, reject_mask)
    THEN IF chunk.data = << >>
         THEN Outcome(pkt, up, "Panic")
         ELSE Outcome(<< >>, up, "Ok")
    ELSE LET p1 == IF "PKTSTART" \in chunk.flags THEN << >> ELSE pkt
             p2 == p1 \o chunk.data
         IN  IF "PKTEND" \in chunk.flags
             THEN pkt_end(p2, up)
             ELSE Outcome(p2, up, "Ok")

\* process_chunk without the clear of line 198: a PKTSTART appends to what
\* was accumulated (not the code)
process_chunk_NoRestartClear(chunk, pkt, up) ==
    IF chunk.kind # "DATA" THEN Outcome(pkt, up, "Ok")
    ELSE IF intersects(chunk.flags, reject_mask)
    THEN IF chunk.data = << >>
         THEN Outcome(pkt, up, "Panic")
         ELSE Outcome(<< >>, up, "Ok")
    ELSE IF "PKTSTART" \notin chunk.flags /\ pkt = << >>
         THEN Outcome(pkt, up, "Ok")
         ELSE LET p2 == pkt \o chunk.data
              IN  IF "PKTEND" \in chunk.flags
                  THEN pkt_end(p2, up)
                  ELSE Outcome(p2, up, "Ok")

\* lines 170-228
process_chunk(chunk, pkt, up) ==
    IF chunk.kind # "DATA" THEN Outcome(pkt, up, "Ok")
    ELSE IF intersects(chunk.flags, reject_mask)
    THEN IF chunk.data = << >>
         THEN Outcome(pkt, up, "Panic")     \* data[0] of an empty slice
         ELSE Outcome(<< >>, up, "Ok")
    ELSE LET p1 == IF "PKTSTART" \in chunk.flags THEN << >> ELSE pkt
         IN  IF "PKTSTART" \notin chunk.flags /\ p1 = << >>
             THEN Outcome(p1, up, "Ok")
             ELSE LET p2 == p1 \o chunk.data
                  IN  IF "PKTEND" \in chunk.flags
                      THEN pkt_end(p2, up)
                      ELSE Outcome(p2, up, "Ok")

\* ------------------------------------------------------------------------
\* the body of read_packet's loop in examples/lband.rs
\* ------------------------------------------------------------------------
\* examples/lband.rs line 352: the mask given to flags.intersects
ex_reject_mask == {"ABORT", "SIZEFAIL", "ADDRFAIL", "CRCFAIL", "RESIDUE"}

ex_chunk(chunk, pkt, up) ==
    IF chunk.kind # "DATA" THEN Outcome(pkt, up, "Ok")
    ELSE IF intersects(chunk.flags, ex_reject_mask)
    THEN Outcome(<< >>, up, "Ok")
    ELSE LET p1 == IF "PKTSTART" \in chunk.flags THEN << >> ELSE pkt
             p2 == p1 \o chunk.data
         IN  IF "PKTEND" \in chunk.flags
             THEN IF Len(p2) < 2
                  THEN Outcome(p2, up, "Panic")   \* packet[..len - 2]
                  ELSE Outcome(p2, Append(up, SubSeq(p2, 1, Len(p2) - 2)),
                               "Ok")
             ELSE Outcome(p2, up, "Ok")


\* ------------------------------------------------------------------------
\* History of the chunks given to the receiver (inputs only)
\* ------------------------------------------------------------------------
\* what the reassembler saw of a chunk: its kind and its flags, the five
\* reject flags summarised as one
Seen(op, f) ==
    [op |-> op, start |-> "PKTSTART" \in f, end |-> "PKTEND" \in f,
     reject |-> f \cap RejectFlags # {}]

NoStep == Seen("none", {})

IsReject(c) == c.flags \cap RejectFlags # {}

HistChunk(c) ==
    /\ last' = Seen(IF c.kind = "DATA" THEN "data" ELSE "other", c.flags)
    /\ since' = IF c.kind # "DATA" THEN since
                ELSE IF "PKTSTART" \in c.flags THEN c.data
                ELSE since \o c.data
    /\ runChunks' =
          IF c.kind # "DATA" THEN (IF runClosed THEN 0 ELSE runChunks)
          ELSE IF IsReject(c) \/ c.data = << >> THEN 0
          ELSE IF "PKTSTART" \in c.flags THEN 1
          ELSE IF runChunks > 0 /\ ~runClosed THEN runChunks + 1
          ELSE 0
    /\ runClosed' =
          /\ c.kind = "DATA" /\ ~IsReject(c) /\ c.data # << >>
          /\ "PKTEND" \in c.flags
          /\ ("PKTSTART" \in c.flags \/ (runChunks > 0 /\ ~runClosed))
    /\ rej' =
          IF c.kind # "DATA" THEN rej
          ELSE IF IsReject(c)
               THEN (IF packet # << >> \/ rej \in {"rejected", "restarted"}
                     THEN "rejected" ELSE "no")
          ELSE LET r1 == IF "PKTSTART" \in c.flags
                         THEN (IF rej \in {"rejected", "restarted"}
                               THEN "restarted" ELSE "no")
                         ELSE (IF rej = "done" THEN "no" ELSE rej)
               IN  IF "PKTEND" \in c.flags /\ r1 = "restarted"
                   THEN "done" ELSE r1
    /\ clean' =
          IF c.kind # "DATA" THEN clean
          ELSE /\ ~IsReject(c)
               /\ "PKTEND" \notin c.flags
               /\ ("PKTSTART" \in c.flags \/ clean)

HistOther(op) ==
    /\ last' = Seen(op, {})
    /\ runChunks' = 0
    /\ runClosed' = FALSE
    /\ UNCHANGED <<since, rej, clean>>

\* ------------------------------------------------------------------------
\* Receiver steps
\* ------------------------------------------------------------------------
SetOutcome(o) ==
    /\ packet' = o.packet
    /\ uplink' = o.uplink
    /\ result' = o.result

\* process_chunk(chunk, &mut packet, &mut uplink)
Chunk(c) ==
    /\ SetOutcome(process_chunk(c, packet, uplink))
    /\ HistChunk(c)

\* bound of the exploration: the sink holds at most MaxSent datagrams
Bounded == Len(uplink') <= MaxSent

\* read_packet, Err arm of the FIFODATARX read (bin/lband.rs 242-246)
ReadError ==
    /\ SetOutcome(Outcome(<< >>, uplink, "Ok"))
    /\ HistOther("readerr")

\* examples/lband.rs: one iteration of read_packet's loop
ExChunk(c) ==
    /\ SetOutcome(ex_chunk(c, packet, uplink))
    /\ HistChunk(c)

\* examples/lband.rs 349: `radio.FIFODATARX().read(len.into())?`
ExReadError ==
    /\ SetOutcome(Outcome(packet, uplink, "Err"))
    /\ HistOther("readerr")

\* ------------------------------------------------------------------------
\* Bring-up: the configuration calls of configure_radio_rx, in call order
\* ------------------------------------------------------------------------
ExpectedRevision == 81
Revisions == {ExpectedRevision, 0}

\* configure_radio with the channel written before the synthesizer (not
\* the code)
bin_configure_radio_ChannelFirst ==
    <<"board", "channel", "synth", "FIFOTHRESH", "autorange">>

\* bin/lband.rs 13-22: configure_radio
bin_configure_radio ==
    <<"board", "synth", "channel", "FIFOTHRESH", "autorange">>

\* configure_radio_rx with the stage machine written before slot 3 (not
\* the code)
bin_configure_radio_rx_StagesBeforeSet3 ==
    bin_configure_radio
        \o <<"PERF_F18", "PERF_F26", "rxparams", "set0", "set1", "stages",
             "set3", "PKTMAXLEN", "PKTLENCFG", "PKTLENOFFSET",
             "PKTCHUNKSIZE", "PKTACCEPTFLAGS", "RSSIREFERENCE">>

\* bin/lband.rs 43-168: configure_radio_rx
bin_configure_radio_rx ==
    bin_configure_radio
        \o <<"PERF_F18", "PERF_F26", "rxparams", "set0", "set1", "set3",
             "stages", "PKTMAXLEN", "PKTLENCFG", "PKTLENOFFSET",
             "PKTCHUNKSIZE", "PKTACCEPTFLAGS", "RSSIREFERENCE">>

\* bin/lband.rs 129-155: the slots named in RXParameterStages
bin_stages ==
    [preamble1 |-> "Set0", preamble2 |-> "Set1", preamble3 |-> "None",
     packet |-> "Set3"]

\* examples/lband.rs 12-73: configure_radio
ex_configure_radio ==
    <<"board", "synth", "channel", "FIFOTHRESH", "autorange">>

\* examples/lband.rs 174-341: configure_radio_rx
ex_configure_radio_rx ==
    ex_configure_radio
        \o <<"PERF_F18", "PERF_F26", "PLLLOOP", "PLLCPI", "rxparams",
             "set0", "set1", "set3", "RXPARAMSETS", "MATCH1PAT",
             "MATCH1LEN", "MATCH1MAX", "TMGRXPREAMBLE2", "PKTMAXLEN",
             "PKTLENCFG", "PKTLENOFFSET", "PKTCHUNKSIZE", "PKTACCEPTFLAGS",
             "PKTADDRCFG", "RSSIREFERENCE">>

\* examples/lband.rs 311-316: RxParamSets(Set0, Set1, Set3, Set3)
ex_RXPARAMSETS ==
    [preamble1 |-> "Set0", preamble2 |-> "Set1", preamble3 |-> "Set3",
     packet |-> "Set3"]

\* config_rpi.rs 8-66: config
rpi_config == <<"board", "synth", "channel", "autorange">>

\* config_rpi.rs 111-258: configure_radio_rx
rpi_configure_radio_rx ==
    rpi_config
        \o <<"PERF_F18", "PERF_F26", "PLLLOOP", "PLLCPI", "rxparams",
             "set0", "set1", "set3", "stages", "PKTMAXLEN", "PKTLENCFG",
             "PKTLENOFFSET", "PKTCHUNKSIZE", "PKTACCEPTFLAGS",
             "RSSIREFERENCE">>

\* config_rpi.rs 219-244: the slots named in RXParameterStages
rpi_stages ==
    [preamble1 |-> "Set0", preamble2 |-> "Set1", preamble3 |-> "None",
     packet |-> "Set3"]

Progs == {"bin", "example", "rpi"}

Steps(p) ==
    CASE p = "bin" -> bin_configure_radio_rx
      [] p = "example" -> ex_configure_radio_rx
      [] OTHER -> rpi_configure_radio_rx

Stages(p) ==
    CASE p = "bin" -> bin_stages
      [] p = "example" -> ex_RXPARAMSETS
      [] OTHER -> rpi_stages

\* the call that writes a parameter-set slot: write0, write1, write3 (no
\* sequence calls a write of slot 2)
SlotWrite ==
    [Set0 |-> "set0", Set1 |-> "set1", Set2 |-> "set2", Set3 |-> "set3"]

\* the calls that write the stage-to-slot map
StageWrites == {"stages", "RXPARAMSETS"}

\* the slots the stage machine of p binds
BoundSlots(p) == {Stages(p)[f] : f \in DOMAIN Stages(p)} \ {"None"}

\* the calls that write a frequency or PLL register: the synthesizer
\* configuration, PLLLOOP and PLLCPI
PllWrites == {"synth", "PLLLOOP", "PLLCPI"}

\* lines 302-319 of bin/lband.rs: the timer is periodic (25 ms) with a
\* telemetry sink and disarmed (zero interval) without
tfd_interval_AlwaysArmed(sink) == 25

tfd_interval(sink) == IF sink THEN 25 ELSE 0

\* the state of main in bin/lband.rs once bring-up has succeeded
BinBringUpDone ==
    /\ prog = "bin"
    /\ rev = <<ExpectedRevision>>
    /\ wrote = bin_configure_radio_rx
    /\ tfd = 0

LoopHistInit ==
    /\ snapshots = 0
    /\ received = << >>
    /\ processed = << >>
    /\ lost = FALSE
    /\ acks = 0
    /\ pending = 0

\* ------------------------------------------------------------------------
\* RXParameters::MSK write of examples/lband.rs (lines 85-147)
\* ------------------------------------------------------------------------
\* floor(a * 2^k / f) in unbounded (u64) arithmetic, by long division
RECURSIVE ShiftDivStep(_, _, _, _)
ShiftDivStep(q, r, k, f) ==
    IF k = 0 THEN q
    ELSE IF r >= f - r
         THEN ShiftDivStep(2 * q + 1, r - (f - r), k - 1, f)
         ELSE ShiftDivStep(2 * q, r + r, k - 1, f)

ShiftDiv(a, k, f) == ShiftDivStep(a \div f, a % f, k, f)

if_freq == 56520
fbaseband == 500000
max_rf_offset == 873

\* line 106: if_freq * board.xtal.div() * 2^20 / board.xtal.freq
iffreq(b) == ShiftDiv(if_freq * b.div, 20, b.freq)

\* line 113: board.xtal.freq / (fbaseband * 2^4 * board.xtal.div())
decimation(b) == b.freq \div (fbaseband * 16 * b.div)

\* lines 118-119: 2^7 * freq / (channel.datarate * div * decimation)
rxdatarate(b, c) == ShiftDiv(b.freq, 7, c.datarate * b.div * decimation(b))

\* line 132: max_rf_offset * 2^24 / board.xtal.freq
maxrfoffset(b) == ShiftDiv(max_rf_offset, 24, b.freq)

RxpRegisters ==
    {"IFFREQ", "DECIMATION", "RXDATARATE", "MAXDROFFSET", "MAXRFOFFSET",
     "AMPLFILTER", "FREQUENCYLEAK"}

\* the register writes of RXParameters::write, in order; MAXRFOFFSET is
\* written twice (lines 131-136 and 138-141)
RxpSteps ==
    <<"IFFREQ", "DECIMATION", "RXDATARATE", "MAXDROFFSET", "MAXRFOFFSET",
      "MAXRFOFFSET_2", "AMPLFILTER", "FREQUENCYLEAK">>

RxpPcs == {RxpSteps[i] : i \in DOMAIN RxpSteps}

RxpIndex(w) == CHOOSE i \in DOMAIN RxpSteps : RxpSteps[i] = w

\* the position after the write at w; Ok(()) after the last
RxpAfter(w) ==
    IF RxpIndex(w) = Len(RxpSteps) THEN "done"
    ELSE RxpSteps[RxpIndex(w) + 1]

\* the register written at w
RxpRegister(w) == IF w = "MAXRFOFFSET_2" THEN "MAXRFOFFSET" ELSE w

\* the value handed to the write at w
RxpValue(w) ==
    CASE w = "IFFREQ" -> iffreq(board)
      [] w = "DECIMATION" -> decimation(board)
      [] w = "RXDATARATE" -> rxdatarate(board, channel)
      [] w = "MAXDROFFSET" -> 0
      [] w = "MAXRFOFFSET" -> [offset |-> maxrfoffset(board),
                               correction |-> params.freq_offs_corr]
      [] w = "MAXRFOFFSET_2" -> [offset |-> 305, correction |-> TRUE]
      [] w = "AMPLFILTER" -> params.ampl_filter
      [] OTHER -> params.frequency_leak

\* the write at w panics: lines 118-119 divide by zero when the decimation
\* or the datarate is zero.  (The `.try_into().unwrap()` conversions do
\* not fail for the crystals drawn here: every value fits in eight bits
\* or in the wider registers.)
RxpPanics(w) ==
    w = "RXDATARATE" /\ channel.datarate * board.div * decimation(board) = 0

\* one register write of RXParameters::write: it succeeds, or panics, or
\* the bus fails and `?` returns the error
RXParameters_write ==
    /\ wpc \in RxpPcs
    /\ \/ /\ RxpPanics(wpc)
          /\ wpc' = "panicked"
          /\ UNCHANGED radio
       \/ /\ ~RxpPanics(wpc)
          /\ radio' = [radio EXCEPT ![RxpRegister(wpc)] = <<RxpValue(wpc)>>]
          /\ wpc' = RxpAfter(wpc)
       \/ /\ ~RxpPanics(wpc)
          /\ wpc' = "failed"
          /\ UNCHANGED radio
    /\ UNCHANGED <<board, channel, params>>
    /\ UNCHANGED <<rxvars, hist, pc, events, chunks, pa_enable, telemetry,
                   mode, irqmask, fifo, irqEdge, sigReady, timerReady, rx,
                   sigInDrain, nread, nproc, sigHandled, bringup, loophist,
                   statvars>>

\* examples/lband.rs 21-25, 62, 186-191: the board, channel and parameters
\* configure_radio_rx passes
ExampleBoard == [freq |-> 16000000, div |-> 1]
ExampleChannel == [datarate |-> 60000]
ExampleParams == [freq_offs_corr |-> TRUE, ampl_filter |-> 0,
                  frequency_leak |-> 0]

\* no register written yet; a written register holds <<value>>
RadioUnset == [r \in RxpRegisters |-> << >>]

\* RXParameters::write not running
RxpIdle ==
    /\ board = ExampleBoard
    /\ channel = ExampleChannel
    /\ params = ExampleParams
    /\ radio = RadioUnset
    /\ wpc = "idle"

\* bin/lband.rs 328: `let mut status = ax5043::Status::empty()`, and no
\* register operation yet
StatusIdle ==
    /\ status = 0
    /\ notes = << >>
    /\ reported = << >>
    /\ ops = 0

\* ------------------------------------------------------------------------
\* The receiver alone: read_packet is called again and again with the
\* FIFO delivering one chunk (or a read error) per call
\* ------------------------------------------------------------------------
InDrain ==
    /\ pc = "read"
    /\ events = <<"IRQ">>
    /\ chunks = << >>
    /\ pa_enable = TRUE
    /\ telemetry = FALSE
    /\ mode = "rx"
    /\ irqmask = TRUE
    /\ fifo = << >>
    /\ irqEdge = FALSE
    /\ sigReady = FALSE
    /\ timerReady = FALSE
    /\ rx = 0
    /\ sigInDrain = FALSE
    /\ nread = 0
    /\ nproc = 0
    /\ sigHandled = FALSE
    /\ BinBringUpDone
    /\ LoopHistInit
    /\ RxpIdle
    /\ StatusIdle

RxInit ==
    /\ packet = << >>
    /\ uplink = << >>
    /\ result = "Ok"
    /\ last = NoStep
    /\ since = << >>
    /\ runChunks = 0
    /\ runClosed = FALSE
    /\ rej = "no"
    /\ clean = FALSE

ChunkInit == RxInit /\ InDrain

Fits(c) ==
    Len(IF "PKTSTART" \in c.flags THEN c.data ELSE since \o c.data)
        <= MaxPacket

FeedChunk ==
    /\ result = "Ok"
    /\ \E c \in ChunkInputs :
          /\ Fits(c)
          /\ Chunk(c)
          /\ Bounded
    /\ UNCHANGED loopvars

FeedError ==
    /\ result = "Ok"
    /\ ReadError
    /\ UNCHANGED loopvars

ChunkNext == FeedChunk \/ FeedError

ChunkSpec == ChunkInit /\ [][ChunkNext]_vars

ExChunkInputs == {c \in ChunkInputs : \A i \in DOMAIN c.data : c.data[i] \in BaseBytes}

ExFeedChunk ==
    /\ result = "Ok"
    /\ \E c \in ExChunkInputs :
          /\ Fits(c)
          /\ ExChunk(c)
          /\ Bounded
    /\ UNCHANGED loopvars

ExFeedError ==
    /\ result = "Ok"
    /\ ExReadError
    /\ UNCHANGED loopvars

ExNext == ExFeedChunk \/ ExFeedError

ExSpec == ChunkInit /\ [][ExNext]_vars


\* ------------------------------------------------------------------------
\* main of src/bin/lband.rs from `radio.reset()` on, and its environment
\* ------------------------------------------------------------------------
\* the chunks the chip delivers in the runs of main
MainChunks ==
    { DataChunk({"PKTSTART"}, SamplePayload),
      DataChunk({"PKTEND"}, ChecksumBytes(SamplePayload)),
      DataChunk({"PKTSTART", "PKTEND"}, <<73>>) }

Terminal == {"done", "failed", "panicked"}
DrainPcs == {"drain", "read", "chunks"}
ShutdownPcs == {"shutdown", "shutdown_reset", "done"}

Orderings(S) ==
    {s \in [1..Cardinality(S) -> S] : \A i, j \in DOMAIN s : s[i] = s[j] => i = j}

MainInit ==
    /\ RxInit
    /\ pc = "reset"
    /\ events = << >>
    /\ chunks = << >>
    /\ pa_enable = FALSE
    /\ telemetry \in BOOLEAN
    /\ mode = "off"
    /\ irqmask = FALSE
    /\ fifo = << >>
    /\ irqEdge = FALSE
    /\ sigReady = FALSE
    /\ timerReady = FALSE
    /\ rx = 0
    /\ sigInDrain = FALSE
    /\ nread = 0
    /\ nproc = 0
    /\ sigHandled = FALSE
    /\ prog = "bin"
    /\ rev = << >>
    /\ wrote = << >>
    /\ tfd = tfd_interval(telemetry)
    /\ LoopHistInit
    /\ RxpIdle
    /\ StatusIdle

\* a `?` that returns the error from main
Throw(unch) == pc' = "failed" /\ UNCHANGED unch

\* line 338 (examples/lband.rs 427): radio.reset()?
Reset ==
    /\ pc = "reset"
    /\ \/ /\ mode' = "reset"
          /\ pc' = "revision"
          /\ UNCHANGED <<rxvars, hist, events, chunks, pa_enable, telemetry,
                         irqmask, fifo, irqEdge, sigReady, timerReady, rx,
                         sigInDrain, nread, nproc, sigHandled, prog, rev,
                         wrote, tfd, snapshots, received, processed, lost,
                         acks, rxpvars, statvars, pending>>
       \/ Throw(<<rxvars, hist, events, chunks, pa_enable, telemetry, mode,
                  irqmask, fifo, irqEdge, sigReady, timerReady, rx,
                  sigInDrain, nread, nproc, sigHandled, prog, rev, wrote,
                  tfd, snapshots, received, processed, lost, acks, rxpvars,
                  statvars, pending>>)

\* a revision check that lets every revision pass (not the code)
CheckRevision_AnyRevision ==
    /\ pc = "revision" /\ prog = "bin"
    /\ \/ \E r \in Revisions :
             /\ rev' = <<r>>
             /\ pc' = "configure"
       \/ pc' = "failed" /\ UNCHANGED rev          \* REVISION().read()?
    /\ UNCHANGED <<rxvars, hist, events, chunks, pa_enable, telemetry, mode,
                   irqmask, fifo, irqEdge, sigReady, timerReady, rx,
                   sigInDrain, nread, nproc, sigHandled, prog, wrote, tfd,
                   snapshots, received, processed, lost, acks, rxpvars,
                   statvars, pending>>

\* lines 340-346: REVISION read and ensure!(rev == 0x51)
CheckRevision ==
    /\ pc = "revision" /\ prog = "bin"
    /\ \/ \E r \in Revisions :
             /\ rev' = <<r>>
             /\ pc' = IF r = ExpectedRevision THEN "configure" ELSE "failed"
       \/ pc' = "failed" /\ UNCHANGED rev          \* REVISION().read()?
    /\ UNCHANGED <<rxvars, hist, events, chunks, pa_enable, telemetry, mode,
                   irqmask, fifo, irqEdge, sigReady, timerReady, rx,
                   sigInDrain, nread, nproc, sigHandled, prog, wrote, tfd,
                   snapshots, received, processed, lost, acks, rxpvars,
                   statvars, pending>>

\* examples/lband.rs 429-433: a revision other than 0x51 is printed and
\* main returns Ok(())
ExCheckRevision ==
    /\ pc = "revision" /\ prog = "example"
    /\ \/ \E r \in Revisions :
             /\ rev' = <<r>>
             /\ pc' = IF r = ExpectedRevision THEN "configure" ELSE "done"
       \/ pc' = "failed" /\ UNCHANGED rev          \* REVISION().read()?
    /\ UNCHANGED <<rxvars, hist, events, chunks, pa_enable, telemetry, mode,
                   irqmask, fifo, irqEdge, sigReady, timerReady, rx,
                   sigInDrain, nread, nproc, sigHandled, prog, wrote, tfd,
                   snapshots, received, processed, lost, acks, rxpvars,
                   statvars, pending>>

\* line 348: configure_radio_rx(&mut radio)?, one configuration call of
\* Steps(prog) per step; each may return an error
ConfigureRadioRx ==
    /\ pc = "configure"
    /\ \/ /\ wrote' = Append(wrote, Steps(prog)[Len(wrote) + 1])
          /\ mode' = "config"
          /\ pc' = IF Len(wrote) + 1 < Len(Steps(prog)) THEN "configure"
                   ELSE IF prog = "rpi" THEN "configured"
                   ELSE "pa_on"
          /\ UNCHANGED <<rxvars, hist, events, chunks, pa_enable, telemetry,
                         irqmask, fifo, irqEdge, sigReady, timerReady, rx,
                         sigInDrain, nread, nproc, sigHandled, prog, rev,
                         tfd, snapshots, received, processed, lost, acks,
                         rxpvars, statvars, pending>>
       \/ Throw(<<rxvars, hist, events, chunks, pa_enable, telemetry, mode,
                  irqmask, fifo, irqEdge, sigReady, timerReady, rx,
                  sigInDrain, nread, nproc, sigHandled, prog, rev, wrote,
                  tfd, snapshots, received, processed, lost, acks, rxpvars,
                  statvars, pending>>)

\* line 349: pa_enable.set_values([true])?; the example (436) has no
\* telemetry snapshot after it
PaOn ==
    /\ pc = "pa_on"
    /\ \/ /\ pa_enable' = TRUE
          /\ pc' = IF prog = "example" THEN "pwrmode" ELSE "send_config"
          /\ UNCHANGED <<rxvars, hist, events, chunks, telemetry, mode,
                         irqmask, fifo, irqEdge, sigReady, timerReady, rx,
                         sigInDrain, nread, nproc, sigHandled, prog, rev,
                         wrote, tfd, snapshots, received, processed, lost,
                         acks, rxpvars, statvars, pending>>
       \/ Throw(<<rxvars, hist, events, chunks, pa_enable, telemetry, mode,
                  irqmask, fifo, irqEdge, sigReady, timerReady, rx,
                  sigInDrain, nread, nproc, sigHandled, prog, rev, wrote,
                  tfd, snapshots, received, processed, lost, acks, rxpvars,
                  statvars, pending>>)

\* lines 351-365: the configuration snapshot, read from the registers and
\* sent when a telemetry sink is configured
SendConfig ==
    /\ pc = "send_config"
    /\ \E ok \in BOOLEAN :
          pc' = IF ok \/ ~telemetry THEN "pwrmode" ELSE "failed"
    /\ UNCHANGED <<rxvars, hist, events, chunks, pa_enable, telemetry, mode,
                   irqmask, fifo, irqEdge, sigReady, timerReady, rx,
                   sigInDrain, nread, nproc, sigHandled, prog, rev, wrote,
                   tfd, snapshots, received, processed, lost, acks, rxpvars,
                   statvars, pending>>

\* lines 366-372: PWRMODE <- RX, then the two sticky-flag reads
SetPwrModeRx ==
    /\ pc = "pwrmode"
    /\ \/ mode' = "rx" /\ pc' = "fifo_clear"    \* all three succeed
       \/ mode' = "rx" /\ pc' = "failed"        \* a read after the write fails
       \/ mode' = mode /\ pc' = "failed"        \* the write fails
    /\ UNCHANGED <<rxvars, hist, events, chunks, pa_enable, telemetry,
                   irqmask, fifo, irqEdge, sigReady, timerReady, rx,
                   sigInDrain, nread, nproc, sigHandled, prog, rev, wrote,
                   tfd, snapshots, received, processed, lost, acks, rxpvars,
                   statvars, pending>>

\* lines 374-381: FIFOCMD CLEAR_ERROR, CLEAR_DATA
ClearFifo ==
    /\ pc = "fifo_clear"
    /\ \/ /\ fifo' = << >>
          /\ lost' = (lost \/ fifo # << >>)
          /\ pc' = "unmask"
          /\ UNCHANGED <<rxvars, hist, events, chunks, pa_enable, telemetry,
                         mode, irqmask, irqEdge, sigReady, timerReady, rx,
                         sigInDrain, nread, nproc, sigHandled, prog, rev,
                         wrote, tfd, snapshots, received, processed, acks,
                         rxpvars, statvars, pending>>
       \/ Throw(<<rxvars, hist, events, chunks, pa_enable, telemetry, mode,
                  irqmask, fifo, irqEdge, sigReady, timerReady, rx,
                  sigInDrain, nread, nproc, sigHandled, prog, rev, wrote,
                  tfd, snapshots, received, processed, lost, acks, rxpvars,
                  statvars, pending>>)

\* lines 383-385: IRQMASK <- FIFONOTEMPTY; the line rises at once when the
\* FIFO already holds data
UnmaskIrq ==
    /\ pc = "unmask"
    /\ \/ /\ irqmask' = TRUE
          /\ irqEdge' = (fifo # << >>)
          /\ pc' = "poll"
          /\ UNCHANGED <<rxvars, hist, events, chunks, pa_enable, telemetry,
                         mode, fifo, sigReady, timerReady, rx, sigInDrain,
                         nread, nproc, sigHandled, prog, rev, wrote, tfd,
                         snapshots, received, processed, lost, acks, rxpvars,
                         statvars, pending>>
       \/ Throw(<<rxvars, hist, events, chunks, pa_enable, telemetry, mode,
                  irqmask, fifo, irqEdge, sigReady, timerReady, rx,
                  sigInDrain, nread, nproc, sigHandled, prog, rev, wrote,
                  tfd, snapshots, received, processed, lost, acks, rxpvars,
                  statvars, pending>>)

Ready ==
    (IF irqEdge THEN {"IRQ"} ELSE {})
        \cup (IF sigReady THEN {"SIGINT"} ELSE {})
        \cup (IF timerReady THEN {"TELEMETRY"} ELSE {})

\* line 389: poll.poll(&mut events, None)? blocks until a source is ready
\* and returns the ready sources in some order
PollEvents ==
    /\ pc = "poll"
    /\ \/ /\ Ready # {}
          /\ events' \in Orderings(Ready)
          /\ pending' = IF irqEdge THEN Len(received) ELSE 0
          /\ pc' = "dispatch"
          /\ UNCHANGED <<rxvars, hist, chunks, pa_enable, telemetry, mode,
                         irqmask, fifo, irqEdge, sigReady, timerReady, rx,
                         sigInDrain, nread, nproc, sigHandled, prog, rev,
                         wrote, tfd, snapshots, received, processed, lost,
                         acks, rxpvars, statvars>>
       \/ Throw(<<rxvars, hist, events, chunks, pa_enable, telemetry, mode,
                  irqmask, fifo, irqEdge, sigReady, timerReady, rx,
                  sigInDrain, nread, nproc, sigHandled, prog, rev, wrote,
                  tfd, snapshots, received, processed, lost, acks, rxpvars,
                  statvars, pending>>)

\* the `for event in events.iter()` loop goes to its next event, or back
\* to poll after the last one
NextEvent ==
    /\ events' = Tail(events)
    /\ pending' = IF Tail(events) = << >> THEN 0 ELSE pending
    /\ pc' = IF Tail(events) = << >> THEN "poll" ELSE "dispatch"

\* lines 392-400: TELEMETRY => tfd.read(), then the state snapshot (STATE
\* and REGISTERS) when a sink is configured; the register reads and the
\* sends can fail
HandleTelemetry ==
    /\ pc = "dispatch" /\ events # << >> /\ Head(events) = "TELEMETRY"
    /\ timerReady' = FALSE
    /\ \/ /\ NextEvent
          /\ snapshots' = IF telemetry THEN snapshots + 1 ELSE snapshots
       \/ /\ telemetry
          /\ pc' = "failed"
          /\ UNCHANGED <<events, snapshots, pending>>
    /\ UNCHANGED <<rxvars, hist, chunks, pa_enable, telemetry, mode, irqmask,
                   fifo, irqEdge, sigReady, rx, sigInDrain, nread, nproc,
                   sigHandled, prog, rev, wrote, tfd, received, processed,
                   lost, acks, rxpvars, statvars>>

\* lines 401-402: IRQ => lband_irq.read_event()?
HandleIrq ==
    /\ pc = "dispatch" /\ events # << >> /\ Head(events) = "IRQ"
    /\ \/ /\ irqEdge' = FALSE
          /\ acks' = acks + 1
          /\ pc' = "drain"
          /\ UNCHANGED <<rxvars, hist, events, chunks, pa_enable, telemetry,
                         mode, irqmask, fifo, sigReady, timerReady, rx,
                         sigInDrain, nread, nproc, sigHandled, prog, rev,
                         wrote, tfd, snapshots, received, processed, lost,
                         rxpvars, statvars, pending>>
       \/ Throw(<<rxvars, hist, events, chunks, pa_enable, telemetry, mode,
                  irqmask, fifo, irqEdge, sigReady, timerReady, rx,
                  sigInDrain, nread, nproc, sigHandled, prog, rev, wrote,
                  tfd, snapshots, received, processed, lost, acks, rxpvars,
                  statvars, pending>>)

\* line 407: SIGINT => break 'outer
HandleSigint ==
    /\ pc = "dispatch" /\ events # << >> /\ Head(events) = "SIGINT"
    /\ pc' = "shutdown"
    /\ sigHandled' = TRUE
    /\ UNCHANGED <<rxvars, hist, events, chunks, pa_enable, telemetry, mode,
                   irqmask, fifo, irqEdge, sigReady, timerReady, rx,
                   sigInDrain, nread, nproc, prog, rev, wrote, tfd,
                   snapshots, received, processed, lost, acks, rxpvars,
                   statvars, pending>>

\* an interrupt line that stays asserted with the FIFO empty (not the
\* chip's FIFONOTEMPTY)
Level_StuckHigh == IF irqmask THEN 1 ELSE 0

\* the level of the interrupt line: FIFO not empty, when unmasked
Level == IF irqmask /\ fifo # << >> THEN 1 ELSE 0

\* a drain loop that looks at the termination signal (not the code)
DrainLevel_BreakOnSignal ==
    /\ pc = "drain"
    /\ \/ /\ sigReady
          /\ pc' = "shutdown"
          /\ sigHandled' = TRUE
          /\ UNCHANGED <<events, pending>>
       \/ /\ ~sigReady /\ Level > 0
          /\ pc' = "read"
          /\ UNCHANGED <<events, sigHandled, pending>>
       \/ /\ ~sigReady /\ Level = 0
          /\ NextEvent
          /\ UNCHANGED sigHandled
       \/ pc' = "failed" /\ UNCHANGED <<events, sigHandled, pending>>
    /\ UNCHANGED <<rxvars, hist, chunks, pa_enable, telemetry, mode, irqmask,
                   fifo, irqEdge, sigReady, timerReady, rx, sigInDrain,
                   nread, nproc, prog, rev, wrote, tfd, snapshots, received,
                   processed, lost, acks, rxpvars, statvars>>

\* an `if` in place of the `while`: one read_packet per edge (not the
\* code)
DrainLevel_SingleRead ==
    /\ pc = "drain"
    /\ \/ /\ Level > 0 /\ nread = 0
          /\ pc' = "read"
          /\ UNCHANGED <<events, pending>>
       \/ /\ Level = 0 \/ nread > 0
          /\ NextEvent
       \/ pc' = "failed" /\ UNCHANGED <<events, pending>>
    /\ UNCHANGED <<rxvars, hist, chunks, pa_enable, telemetry, mode, irqmask,
                   fifo, irqEdge, sigReady, timerReady, rx, sigInDrain,
                   nread, nproc, sigHandled, prog, rev, wrote, tfd,
                   snapshots, received, processed, lost, acks, rxpvars,
                   statvars>>

\* line 403: while lband_irq.get_values(0u8)? > 0
DrainLevel ==
    /\ pc = "drain"
    /\ \/ /\ Level > 0
          /\ pc' = "read"
          /\ UNCHANGED <<events, pending>>
       \/ /\ Level = 0
          /\ NextEvent
       \/ pc' = "failed" /\ UNCHANGED <<events, pending>>
    /\ UNCHANGED <<rxvars, hist, chunks, pa_enable, telemetry, mode, irqmask,
                   fifo, irqEdge, sigReady, timerReady, rx, sigInDrain,
                   nread, nproc, sigHandled, prog, rev, wrote, tfd,
                   snapshots, received, processed, lost, acks, rxpvars,
                   statvars>>

\* a read_packet that clears the accumulator when FIFOCOUNT is 0 (not the
\* code)
ReadPacket_ClearOnEmpty ==
    /\ pc = "read"
    /\ \/ /\ pc' = "failed"                      \* FIFOCOUNT().read()?
          /\ result' = "Err"
          /\ UNCHANGED <<packet, uplink, hist, chunks, fifo, nread, lost>>
       \/ /\ fifo = << >>                        \* len == 0
          /\ pc' = "drain"
          /\ result' = "Ok"
          /\ packet' = << >>
          /\ HistOther("empty")
          /\ UNCHANGED <<uplink, chunks, fifo, nread, lost>>
       \/ /\ fifo # << >>                        \* Ok(chunks)
          /\ chunks' = fifo
          /\ fifo' = << >>
          /\ nread' = nread + Len(fifo)
          /\ pc' = "chunks"
          /\ UNCHANGED <<rxvars, hist, lost>>
       \/ /\ fifo # << >>                        \* Err(e)
          /\ ReadError
          /\ fifo' \in {fifo, << >>}
          /\ lost' = (lost \/ fifo' = << >>)
          /\ pc' = "drain"
          /\ UNCHANGED <<chunks, nread>>
    /\ UNCHANGED <<events, pa_enable, telemetry, mode, irqmask, irqEdge,
                   sigReady, timerReady, rx, sigInDrain, nproc, sigHandled,
                   prog, rev, wrote, tfd, snapshots, received, processed,
                   acks, rxpvars, statvars, pending>>

\* lines 230-249: read_packet up to its loop over the chunks.  FIFOCOUNT
\* is read, then that many bytes of FIFODATARX; a failed data read leaves
\* the FIFO drained or untouched.
ReadPacket ==
    /\ pc = "read"
    /\ \/ /\ pc' = "failed"                      \* FIFOCOUNT().read()?
          /\ result' = "Err"
          /\ UNCHANGED <<packet, uplink, hist, chunks, fifo, nread, lost>>
       \/ /\ fifo = << >>                        \* len == 0
          /\ pc' = "drain"
          /\ result' = "Ok"
          /\ HistOther("empty")
          /\ UNCHANGED <<packet, uplink, chunks, fifo, nread, lost>>
       \/ /\ fifo # << >>                        \* Ok(chunks)
          /\ chunks' = fifo
          /\ fifo' = << >>
          /\ nread' = nread + Len(fifo)
          /\ pc' = "chunks"
          /\ UNCHANGED <<rxvars, hist, lost>>
       \/ /\ fifo # << >>                        \* Err(e)
          /\ ReadError
          /\ fifo' \in {fifo, << >>}
          /\ lost' = (lost \/ fifo' = << >>)
          /\ pc' = "drain"
          /\ UNCHANGED <<chunks, nread>>
    /\ UNCHANGED <<events, pa_enable, telemetry, mode, irqmask, irqEdge,
                   sigReady, timerReady, rx, sigInDrain, nproc, sigHandled,
                   prog, rev, wrote, tfd, snapshots, received, processed,
                   acks, rxpvars, statvars, pending>>

\* lines 238-240: process_chunk(chunk, packet, uplink)? for the next chunk;
\* read_packet returns Ok after the last one
ProcessChunk ==
    /\ pc = "chunks" /\ chunks # << >>
    /\ Chunk(Head(chunks))
    /\ Bounded
    /\ nproc' = nproc + 1
    /\ processed' = Append(processed, Head(chunks))
    /\ chunks' = Tail(chunks)
    /\ pc' = IF result' = "Panic" THEN "panicked"
             ELSE IF Tail(chunks) = << >> THEN "drain" ELSE "chunks"
    /\ UNCHANGED <<events, pa_enable, telemetry, mode, irqmask, fifo,
                   irqEdge, sigReady, timerReady, rx, sigInDrain, nread,
                   sigHandled, prog, rev, wrote, tfd, snapshots, received,
                   lost, acks, rxpvars, statvars, pending>>

\* line 413: pa_enable.set_values([false])?
PaOff ==
    /\ pc = "shutdown"
    /\ \/ /\ pa_enable' = FALSE
          /\ pc' = "shutdown_reset"
          /\ UNCHANGED <<rxvars, hist, events, chunks, telemetry, mode,
                         irqmask, fifo, irqEdge, sigReady, timerReady, rx,
                         sigInDrain, nread, nproc, sigHandled, prog, rev,
                         wrote, tfd, snapshots, received, processed, lost,
                         acks, rxpvars, statvars, pending>>
       \/ Throw(<<rxvars, hist, events, chunks, pa_enable, telemetry, mode,
                  irqmask, fifo, irqEdge, sigReady, timerReady, rx,
                  sigInDrain, nread, nproc, sigHandled, prog, rev, wrote,
                  tfd, snapshots, received, processed, lost, acks, rxpvars,
                  statvars, pending>>)

\* lines 414-415: radio.reset()?; Ok(())
ShutdownReset ==
    /\ pc = "shutdown_reset"
    /\ \/ /\ mode' = "reset"
          /\ irqmask' = FALSE
          /\ fifo' = << >>
          /\ lost' = (lost \/ fifo # << >>)
          /\ pc' = "done"
          /\ UNCHANGED <<rxvars, hist, events, chunks, pa_enable, telemetry,
                         irqEdge, sigReady, timerReady, rx, sigInDrain,
                         nread, nproc, sigHandled, prog, rev, wrote, tfd,
                         snapshots, received, processed, acks, rxpvars,
                         statvars, pending>>
       \/ Throw(<<rxvars, hist, events, chunks, pa_enable, telemetry, mode,
                  irqmask, fifo, irqEdge, sigReady, timerReady, rx,
                  sigInDrain, nread, nproc, sigHandled, prog, rev, wrote,
                  tfd, snapshots, received, processed, lost, acks, rxpvars,
                  statvars, pending>>)

\* ---- environment ----
\* the chip, in RX mode, puts a received chunk into its FIFO; the interrupt
\* line rises when the FIFO was empty
ChipReceive ==
    /\ pc \notin Terminal
    /\ mode = "rx"
    /\ rx < MaxRx
    /\ Len(fifo) < MaxFifo
    /\ \E c \in MainChunks :
          /\ fifo' = Append(fifo, c)
          /\ received' = Append(received, c)
    /\ irqEdge' = (irqEdge \/ (irqmask /\ fifo = << >>))
    /\ rx' = rx + 1
    /\ UNCHANGED <<rxvars, hist, pc, events, chunks, pa_enable, telemetry,
                   mode, irqmask, sigReady, timerReady, sigInDrain, nread,
                   nproc, sigHandled, prog, rev, wrote, tfd, snapshots,
                   processed, lost, acks, rxpvars, statvars, pending>>

\* the termination signal (SIGINT) is delivered
SignalArrives ==
    /\ pc \notin Terminal
    /\ ~sigReady
    /\ sigReady' = TRUE
    /\ sigInDrain' = (pc \in DrainPcs)
    /\ UNCHANGED <<rxvars, hist, pc, events, chunks, pa_enable, telemetry,
                   mode, irqmask, fifo, irqEdge, timerReady, rx, nread,
                   nproc, sigHandled, prog, rev, wrote, tfd, snapshots,
                   received, processed, lost, acks, rxpvars, statvars,
                   pending>>

\* the timer expires: only a timer armed with a non-zero interval does
TimerFires ==
    /\ pc \notin Terminal
    /\ tfd > 0
    /\ snapshots < MaxSnapshots
    /\ ~timerReady
    /\ timerReady' = TRUE
    /\ UNCHANGED <<rxvars, hist, pc, events, chunks, pa_enable, telemetry,
                   mode, irqmask, fifo, irqEdge, sigReady, rx, sigInDrain,
                   nread, nproc, sigHandled, prog, rev, wrote, tfd,
                   snapshots, received, processed, lost, acks, rxpvars,
                   statvars, pending>>

Next ==
    \/ Reset \/ CheckRevision \/ ConfigureRadioRx \/ PaOn \/ SendConfig
    \/ SetPwrModeRx \/ ClearFifo \/ UnmaskIrq
    \/ PollEvents \/ HandleTelemetry \/ HandleIrq \/ HandleSigint
    \/ DrainLevel \/ ReadPacket \/ ProcessChunk
    \/ PaOff \/ ShutdownReset
    \/ ChipReceive \/ SignalArrives \/ TimerFires

Spec == MainInit /\ [][Next]_vars

\* ------------------------------------------------------------------------
\* Bring-up alone: main of bin/lband.rs and of examples/lband.rs from
\* `radio.reset()` to the start of the event loop, and configure_radio_rx
\* of config_rpi.rs
\* ------------------------------------------------------------------------
BringUpInit ==
    /\ RxInit
    /\ prog \in Progs
    /\ pc = IF prog = "rpi" THEN "configure" ELSE "reset"
    /\ telemetry \in (IF prog = "bin" THEN BOOLEAN ELSE {FALSE})
    /\ tfd = (IF prog = "example" THEN 50 ELSE tfd_interval(telemetry))
    /\ events = << >>
    /\ chunks = << >>
    /\ pa_enable = FALSE
    /\ mode = "off"
    /\ irqmask = FALSE
    /\ fifo = << >>
    /\ irqEdge = FALSE
    /\ sigReady = FALSE
    /\ timerReady = FALSE
    /\ rx = 0
    /\ sigInDrain = FALSE
    /\ nread = 0
    /\ nproc = 0
    /\ sigHandled = FALSE
    /\ rev = << >>
    /\ wrote = << >>
    /\ LoopHistInit
    /\ RxpIdle
    /\ StatusIdle

BringUpNext ==
    \/ Reset \/ CheckRevision \/ ExCheckRevision \/ ConfigureRadioRx
    \/ PaOn \/ SendConfig \/ SetPwrModeRx \/ ClearFifo \/ UnmaskIrq

BringUpSpec == BringUpInit /\ [][BringUpNext]_vars

\* ------------------------------------------------------------------------
\* RXParameters::write alone, for a range of crystals, channels and flags
\* ------------------------------------------------------------------------
XtalFreqs == {16000000, 48000000, 7999999, 1024000000}
XtalDivs == {1, 2}
Datarates == {60000, 9600, 0}

\* configure_radio_rx of examples/lband.rs at its call of params.write
\* (line 192)
RxpInit ==
    /\ RxInit
    /\ prog = "example"
    /\ pc = "configure"
    /\ rev = <<ExpectedRevision>>
    /\ wrote = SubSeq(ex_configure_radio_rx, 1, 9)
    /\ mode = "config"
    /\ telemetry = FALSE
    /\ tfd = 50
    /\ events = << >>
    /\ chunks = << >>
    /\ pa_enable = FALSE
    /\ irqmask = FALSE
    /\ fifo = << >>
    /\ irqEdge = FALSE
    /\ sigReady = FALSE
    /\ timerReady = FALSE
    /\ rx = 0
    /\ sigInDrain = FALSE
    /\ nread = 0
    /\ nproc = 0
    /\ sigHandled = FALSE
    /\ LoopHistInit
    /\ board \in [freq : XtalFreqs, div : XtalDivs]
    /\ channel \in [datarate : Datarates]
    /\ params \in [freq_offs_corr : BOOLEAN, ampl_filter : {0},
                   frequency_leak : {0}]
    /\ radio = RadioUnset
    /\ wpc = "IFFREQ"
    /\ StatusIdle

RxpNext == RXParameters_write

RxpSpec == RxpInit /\ [][RxpNext]_vars

\* ------------------------------------------------------------------------
\* read_packet alone, called again and again whatever the FIFO holds:
\* nothing, DATA chunks, other chunks
\* ------------------------------------------------------------------------
ReadChunks == MainChunks \cup {OtherChunk}

ReadInit ==
    /\ RxInit
    /\ pc = "read"
    /\ events = <<"IRQ">>
    /\ chunks = << >>
    /\ pa_enable = TRUE
    /\ telemetry = FALSE
    /\ mode = "rx"
    /\ irqmask = TRUE
    /\ fifo \in SeqsUpTo(ReadChunks, MaxFifo)
    /\ irqEdge = FALSE
    /\ sigReady = FALSE
    /\ timerReady = FALSE
    /\ rx = Len(fifo)
    /\ sigInDrain = FALSE
    /\ nread = 0
    /\ nproc = 0
    /\ sigHandled = FALSE
    /\ BinBringUpDone
    /\ snapshots = 0
    /\ received = fifo
    /\ processed = << >>
    /\ lost = FALSE
    /\ acks = 1
    /\ pending = 0
    /\ RxpIdle
    /\ StatusIdle

\* read_packet is called again; the chip has queued `add` since the last
\* call
CallReadPacket ==
    /\ pc = "drain"
    /\ pc' = "read"
    /\ \E add \in SeqsUpTo(ReadChunks, MaxFifo - Len(fifo)) :
          /\ rx + Len(add) <= MaxRx
          /\ fifo' = fifo \o add
          /\ received' = received \o add
          /\ rx' = rx + Len(add)
    /\ UNCHANGED <<rxvars, hist, events, chunks, pa_enable, telemetry, mode,
                   irqmask, irqEdge, sigReady, timerReady, sigInDrain,
                   nread, nproc, sigHandled, bringup, snapshots, processed,
                   lost, acks, pending, rxpvars, statvars>>

ReadNext == ReadPacket \/ ProcessChunk \/ CallReadPacket

ReadSpec == ReadInit /\ [][ReadNext]_vars

\* ------------------------------------------------------------------------
\* The status callback main gives to Registers::new (bin/lband.rs 328-337,
\* examples/lband.rs 418-426): Registers calls it on every register
\* operation with the status the chip returned
\* ------------------------------------------------------------------------
MaxOps == 4

\* values of ax5043::Status; 0 is Status::empty()
Statuses == 0..2

\* a status change is emitted: sent to the telemetry sink by the binary
\* when there is one (lines 331-333), printed by the example (line 421)
Emits == prog = "example" \/ telemetry

\* a callback that does not record the status it saw (not the code)
callback_NoRecord(s) ==
    IF s # status
    THEN /\ notes' = IF Emits THEN Append(notes, s) ELSE notes
         /\ UNCHANGED <<status, pc>>
    ELSE UNCHANGED <<status, notes, pc>>

\* the closure: `if s != status { emit; status = s; }`; the binary's
\* `send(socket).unwrap()` panics when the send fails
callback(s) ==
    IF s # status
    THEN \/ /\ notes' = IF Emits THEN Append(notes, s) ELSE notes
            /\ status' = s
            /\ pc' = pc
         \/ /\ prog = "bin" /\ telemetry
            /\ pc' = "panicked"
            /\ UNCHANGED <<status, notes>>
    ELSE UNCHANGED <<status, notes, pc>>

\* one register operation of the running program: the chip returns its
\* status and Registers hands it to the callback
RegisterOperation ==
    /\ pc \notin Terminal
    /\ ops < MaxOps
    /\ \E s \in Statuses :
          /\ reported' = <<s>>
          /\ callback(s)
    /\ ops' = ops + 1
    /\ UNCHANGED <<rxvars, hist, events, chunks, pa_enable, telemetry, mode,
                   irqmask, fifo, irqEdge, sigReady, timerReady, rx,
                   sigInDrain, nread, nproc, sigHandled, bringup, loophist,
                   rxpvars>>

StatusInit == BringUpInit /\ prog # "rpi"

StatusNext == RegisterOperation

StatusSpec == StatusInit /\ [][StatusNext]_vars

\* ------------------------------------------------------------------------
\* Properties of the reassembler
\* ------------------------------------------------------------------------
Body(s) == SubSeq(s, 1, Len(s) - 2)
Trailer(s) == <<s[Len(s) - 1], s[Len(s)]>>

\* the bytes since the last PKTSTART are a payload followed by its
\* big-endian CRC-16/GENIBUS
Valid(s) == Len(s) >= 2 /\ Trailer(s) = ChecksumBytes(Body(s))

C2_OnlyVerifiedPacketsSent ==
    [][ (uplink' # uplink)
          => (/\ Len(since') >= 2
              /\ uplink' = Append(uplink, Body(since'))
              /\ Trailer(since')[1] * 256 + Trailer(since')[2]
                   = crc16_genibus(Body(since'))) ]_vars

C2_Witness ==
    /\ Len(uplink) = 2
    /\ last.op = "data" /\ last.end
    /\ uplink[2] = Body(since)

\* C3: a clean PKTSTART ... PKTEND run whose last two bytes are not the
\* checksum of the bytes before them sends nothing, returns Ok and leaves
\* the accumulator empty; the next PKTSTART chunk then starts a packet
\* holding that chunk's payload only.
Mismatch(s) == Len(s) >= 2 /\ Trailer(s) # ChecksumBytes(Body(s))

C3_MismatchDropsPacket ==
    [][ /\ ((runClosed' /\ Mismatch(since'))
              => (uplink' = uplink /\ result' = "Ok" /\ packet' = << >>))
        /\ ((runClosed /\ Mismatch(since) /\ last'.op = "data"
               /\ last'.start /\ ~last'.reject /\ ~last'.end)
              => packet' = since') ]_vars

C3_Witness ==
    /\ runClosed /\ runChunks >= 2 /\ Mismatch(since)
    /\ packet = << >> /\ uplink = << >> /\ result = "Ok"

\* C4: after a reject-flagged chunk that arrived while bytes were
\* accumulated, the accumulator of the running program is empty until the
\* next PKTSTART chunk, and the packet sent for the run that follows is the
\* payload of the chunks from that PKTSTART on (checksum stripped).
C4_RejectLeaksNothing ==
    /\ []((rej = "rejected" /\ result # "Panic") => packet = << >>)
    /\ [][ /\ (rej' = "rejected" => uplink' = uplink)
           /\ ((rej' = "done" /\ uplink' # uplink)
                 => uplink' = Append(uplink, Body(since'))) ]_vars

C4_Witness ==
    /\ rej = "done" /\ runClosed /\ Valid(since)
    /\ uplink = <<Body(since)>>
    /\ packet = << >>

\* C5: a DATA chunk without PKTSTART and without a reject flag that arrives
\* while the accumulator is empty leaves it empty, sends nothing and
\* returns Ok, with or without PKTEND and whatever its payload.
C5_ContinuationWhileEmptyIsNoOp ==
    [][ (packet = << >> /\ last'.op = "data" /\ ~last'.start
           /\ ~last'.reject)
          => (packet' = << >> /\ uplink' = uplink /\ result' = "Ok") ]_vars

C5_Witness ==
    /\ last.op = "data" /\ ~last.start /\ ~last.reject /\ last.end
    /\ Len(since) >= 2 /\ ~runClosed
    /\ packet = << >> /\ uplink = << >> /\ result = "Ok"

\* C6: when the receiver has processed a DATA chunk with PKTEND or a reject
\* flag, the accumulator is empty (checked on the receiver of
\* examples/lband.rs).
C6_AccumulatorClearedAtPacketEnd ==
    [][ (last'.op = "data" /\ (last'.end \/ last'.reject)
           /\ result' = "Ok")
          => packet' = << >> ]_vars

\* C7: process_chunk returns Ok for every DATA chunk.
C7_ProcessChunkReturnsNormally == result = "Ok"

\* C8: a FIFO read error clears the accumulator and read_packet returns
\* Ok (stated for the receiver of examples/lband.rs).
C8_FifoErrorRecovered ==
    [][ (last'.op = "readerr")
          => (packet' = << >> /\ result' = "Ok") ]_vars


\* ------------------------------------------------------------------------
\* Properties of the event loop
\* ------------------------------------------------------------------------
\* C9: the drain loop is left (other than by an error ending main) only
\* when the interrupt level is deasserted and every chunk read has been
\* processed, whether or not the termination signal is ready; when shutdown
\* starts every chunk read from the FIFO has been given to process_chunk.
C9_DrainNotCutShort ==
    /\ [](pc \in ShutdownPcs => (chunks = << >> /\ nread = nproc))
    /\ [][ (pc \in DrainPcs /\ pc' \notin DrainPcs
              /\ pc' \notin {"failed", "panicked"})
             => (Level = 0 /\ chunks = << >> /\ pc' \in {"poll", "dispatch"})
       ]_vars

C9_Witness ==
    /\ sigInDrain /\ sigHandled /\ pc = "shutdown"
    /\ nread = nproc /\ nproc >= 2
    /\ uplink = <<SamplePayload>>

\* C10: once the loop has handled the termination event, main ends with
\* success, the power amplifier disabled and the chip reset.
C10_TerminationEndsInShutdown ==
    (sigHandled /\ pc \in Terminal)
        => (pc = "done" /\ ~pa_enable /\ mode = "reset")

\* C11: the interrupt handler acknowledges the edge event before it reads,
\* it returns to the event loop only when the interrupt level is deasserted
\* with nothing left in the FIFO or unprocessed, and the chunks given to
\* process_chunk are the chunks the chip queued, in FIFO order, none
\* skipped (as long as no FIFO clear, reset or read error discarded any).
C11_EdgeDrainsFifo ==
    /\ [](~lost => processed \o chunks \o fifo = received)
    /\ [][ /\ ((pc = "dispatch" /\ pc' = "drain")
                 => (irqEdge /\ ~irqEdge' /\ acks' = acks + 1
                       /\ nread' = nread))
           /\ ((pc \in DrainPcs /\ pc' \in {"poll", "dispatch"})
                 => (Level = 0 /\ fifo = << >> /\ chunks = << >>
                       /\ nread = nproc)) ]_vars

C11_Witness ==
    /\ pc = "poll" /\ acks = 1 /\ ~lost
    /\ Len(processed) >= 2 /\ processed = received
    /\ fifo = << >>

\* ------------------------------------------------------------------------
\* Properties of the bring-up
\* ------------------------------------------------------------------------
WrittenBefore(op, i) == \E j \in 1..(i - 1) : wrote[j] = op

\* C12: in each bring-up sequence, when the stage-to-slot map is written
\* every slot it binds has been written earlier in the sequence; slot 2,
\* which no sequence writes, is bound to no stage.
C12_StagesBindWrittenSlots ==
    \A i \in DOMAIN wrote :
        wrote[i] \in StageWrites
            => /\ "Set2" \notin BoundSlots(prog)
               /\ \A s \in BoundSlots(prog) : WrittenBefore(SlotWrite[s], i)

C12_Witness ==
    /\ prog = "rpi" /\ pc = "configured"
    /\ \E i \in DOMAIN wrote : wrote[i] \in StageWrites
    /\ BoundSlots(prog) = {"Set0", "Set1", "Set3"}

\* configure_radio_rx has returned Ok
ConfigDone == Len(wrote) = Len(Steps(prog))

\* C13: once a bring-up sequence is complete (and so before RX mode is
\* entered), autorange has run after the last write of a frequency or PLL
\* register.
C13_AutorangeAfterLastPllWrite ==
    (ConfigDone \/ mode = "rx")
        => \E i \in DOMAIN wrote :
              /\ wrote[i] = "autorange"
              /\ \A j \in DOMAIN wrote : wrote[j] \in PllWrites => j < i

\* C14: when the REVISION register read after reset is not 0x51, main has
\* ended with an error, no configuration call was made, the power
\* amplifier is off and RX mode was not entered.
C14_BadRevisionIsFatal ==
    (rev # << >> /\ rev # <<ExpectedRevision>>)
        => (pc = "failed" /\ wrote = << >> /\ ~pa_enable /\ mode # "rx")

\* ------------------------------------------------------------------------
\* Properties of RXParameters::write (examples/lband.rs)
\* ------------------------------------------------------------------------
\* the decimation fits the DECIMATION register: 7 bits, not zero
DecimationInRange(b) == decimation(b) \in 1..127

\* C15: for a crystal and divider whose decimation is out of range the
\* write neither panics nor writes DECIMATION nor goes on past it: it
\* returns a ConfigurationError; for an in-range one the value written is
\* floor(freq / (fbaseband * 16 * div)).
C15_DecimationOutOfRangeIsError ==
    /\ ~DecimationInRange(board)
         => (/\ wpc # "panicked"
             /\ radio["DECIMATION"] = << >>
             /\ wpc \in {"IFFREQ", "DECIMATION", "failed", "config_error"})
    /\ (DecimationInRange(board) /\ radio["DECIMATION"] # << >>)
         => LET d == radio["DECIMATION"][1]
                den == fbaseband * 16 * board.div
            IN  d * den <= board.freq /\ board.freq < (d + 1) * den

\* C16: when the write has finished, MAXRFOFFSET holds
\* max_rf_offset * 2^24 / xtal.freq with the caller's freq_offs_corr flag.
C16_MaxRfOffsetIsDerived ==
    wpc = "done"
        => radio["MAXRFOFFSET"]
             = <<[offset |-> ShiftDiv(max_rf_offset, 24, board.freq),
                  correction |-> params.freq_offs_corr]>>

\* ------------------------------------------------------------------------
\* More properties of the event loop and of the reassembler
\* ------------------------------------------------------------------------
\* C17: without a telemetry sink the timer is armed with a zero interval,
\* never becomes ready and no snapshot is emitted; with a sink the timer
\* is armed and every timer event the loop handles (without an error that
\* ends main) emits one snapshot.  Handling a timer event changes neither
\* the accumulator nor what was sent to the uplink.
C17_TelemetryOnlyWithSink ==
    /\ [](~telemetry => (tfd = 0 /\ ~timerReady /\ snapshots = 0))
    /\ [](telemetry => tfd > 0)
    /\ [][ (timerReady /\ ~timerReady')
             => (/\ packet' = packet /\ uplink' = uplink
                 /\ (pc' # "failed" => snapshots' = snapshots + 1)) ]_vars

C17_Witness ==
    /\ telemetry /\ snapshots = 1 /\ ~timerReady
    /\ packet = SamplePayload
    /\ pc = "poll"

\* C18: when a DATA chunk with PKTSTART, no reject flag and no PKTEND has
\* been processed, whatever its payload length, the next DATA chunk without
\* PKTSTART, reject flag or PKTEND is appended: the accumulator then holds
\* the payloads of both.
C18_StartEntersAccumulating ==
    [][ (/\ last.op = "data" /\ last.start /\ ~last.reject /\ ~last.end
         /\ result = "Ok"
         /\ last'.op = "data" /\ ~last'.start /\ ~last'.reject
         /\ ~last'.end)
          => (packet' = since' /\ result' = "Ok") ]_vars

C20_RejectTakesPrecedence ==
    [][ (last'.op = "data" /\ last'.reject)
          => (packet' = << >> /\ uplink' = uplink /\ result' = "Ok") ]_vars

\* C21: when the loop is left on the termination event of a poll batch
\* that also held the interrupt event, whichever came first in the batch,
\* every chunk the chip had queued when the batch was returned has been
\* given to process_chunk before the chip is reset (unless a read error
\* discarded it).
C21_BatchWithSigintDrainsFifo ==
    (pc \in {"shutdown", "shutdown_reset"} /\ ~lost)
        => Len(processed) >= pending

\* ------------------------------------------------------------------------
\* The interrupt path of the event loop alone: main is at the poll of line
\* 389 with the chip in RX mode, chunks queued in the FIFO and the edge
\* event ready; no timer and no termination signal
\* ------------------------------------------------------------------------
DrainInit ==
    /\ RxInit
    /\ pc = "poll"
    /\ events = << >>
    /\ chunks = << >>
    /\ pa_enable = TRUE
    /\ telemetry = FALSE
    /\ mode = "rx"
    /\ irqmask = TRUE
    /\ fifo \in SeqsUpTo(MainChunks, MaxFifo) \ {<< >>}
    /\ irqEdge = TRUE
    /\ sigReady = FALSE
    /\ timerReady = FALSE
    /\ rx = Len(fifo)
    /\ sigInDrain = FALSE
    /\ nread = 0
    /\ nproc = 0
    /\ sigHandled = FALSE
    /\ BinBringUpDone
    /\ snapshots = 0
    /\ received = fifo
    /\ processed = << >>
    /\ lost = FALSE
    /\ acks = 0
    /\ pending = 0
    /\ RxpIdle
    /\ StatusIdle

DrainNext ==
    \/ PollEvents \/ HandleIrq \/ DrainLevel \/ ReadPacket \/ ProcessChunk
    \/ ChipReceive

\* main keeps running: the interrupt arm, the level test and read_packet
\* are taken when they can be, the `for chunk in chunks` loop of
\* read_packet (where ProcessChunk is the only step) is not stopped for
\* ever, and a FIFO read that is tried again and again does not fail every
\* time
DrainSpec ==
    /\ DrainInit /\ [][DrainNext]_vars
    /\ WF_vars(HandleIrq) /\ WF_vars(DrainLevel) /\ WF_vars(ReadPacket)
    /\ SF_vars(ReadPacket /\ fifo' = << >>)
    /\ []<>(pc # "chunks")

C23_NoDuplicateStatus ==
    /\ [](\A i \in 1..(Len(notes) - 1) : notes[i] # notes[i + 1])
    /\ [][ /\ (ops' = ops + 1)
                 => IF reported' = <<status>>
                    THEN notes' = notes /\ status' = status
                    ELSE \/ pc' = "panicked"
                         \/ /\ <<status'>> = reported'
                            /\ notes' = IF Emits
                                        THEN notes \o reported'
                                        ELSE notes
           /\ (notes' # notes)
                 => (notes' = Append(notes, status') /\ status' # status)
       ]_vars

C23_Witness ==
    /\ prog = "bin" /\ telemetry
    /\ ops = 4 /\ Len(notes) = 2
    /\ reported = <<status>> /\ notes[2] = status

\* the global write order: board, synthesizer, channel, receiver
\* parameters, parameter sets 0, 1 and 3, stage machine
WriteOrder ==
    <<"board", "synth", "channel", "rxparams", "set0", "set1", "set3",
      "stages">>

\* the writes of WriteOrder made so far, in the order they were made
WriteSet == {WriteOrder[k] : k \in DOMAIN WriteOrder}

InWriteOrder(x) == x \in WriteSet

Ordered(w) == SelectSeq(w, InWriteOrder)

LoopPcs == {"poll", "dispatch"} \cup DrainPcs

\* C24: in the lband binary the writes of the global order are made in
\* that order, each once; RX mode is entered only after the revision check
\* and every write of configure_radio_rx; the FIFO is cleared and then the
\* FIFO-not-empty interrupt unmasked only in RX mode, and the event loop
\* runs only with both done.
C24_BringUpOrder ==
    /\ [](LET o == Ordered(wrote)
          IN  /\ o = SubSeq(WriteOrder, 1, Len(o))
              /\ mode = "rx"
                    => (/\ rev = <<ExpectedRevision>>
                        /\ ConfigDone
                        /\ o = WriteOrder))
    /\ [](pc \in LoopPcs => (mode = "rx" /\ irqmask))
    /\ [][ /\ (pc = "fifo_clear" /\ pc' = "unmask")
                 => (mode = "rx" /\ ~irqmask /\ fifo' = << >>)
           /\ (~irqmask /\ irqmask')
                 => (mode = "rx" /\ pc = "unmask" /\ pc' = "poll")
           /\ (pc \notin LoopPcs /\ pc' \in LoopPcs)
                 => (pc = "unmask" /\ pc' = "poll") ]_vars

C24_Witness ==
    /\ prog = "bin" /\ pc = "poll" /\ mode = "rx" /\ irqmask
    /\ Ordered(wrote) = WriteOrder
    /\ lost /\ received # << >> /\ fifo = << >> /\ nread = 0

\* C25: for a crystal and divider with a decimation in 1..127 and every
\* datarate, the write does not panic, and the RXDATARATE it writes is
\* floor(2^7 * freq / (datarate * div * d)), d being the value written to
\* DECIMATION: one division of the full product.
C25_RxDataRateFormula ==
    DecimationInRange(board)
        => /\ wpc # "panicked"
           /\ radio["RXDATARATE"] # << >>
                => /\ radio["DECIMATION"] # << >>
                   /\ LET d == radio["DECIMATION"][1]
                          den == channel.datarate * board.div * d
                      IN  /\ den > 0
                          /\ radio["RXDATARATE"]
                               = <<128 * (board.freq \div den)
                                     + (128 * (board.freq % den)) \div den>>

\* C26: in the lband binary the PA enable output is false at the start
\* and is set true only at line 349, after the reset, the revision check
\* (REVISION = 0x51) and every call of configure_radio_rx have succeeded;
\* a run in which one of them fails ends with the output never set.
C26_PaOnlyAfterBringUp ==
    /\ [](pc = "reset" => ~pa_enable)
    /\ []((prog = "bin" /\ pa_enable)
            => (/\ mode # "off"
                /\ rev = <<ExpectedRevision>>
                /\ ConfigDone))
    /\ []((prog = "bin" /\ pc = "failed" /\ ~ConfigDone) => ~pa_enable)
    /\ [][ (prog = "bin" /\ ~pa_enable /\ pa_enable')
             => (pc = "pa_on" /\ ConfigDone
                   /\ rev = <<ExpectedRevision>>) ]_vars

C26_Witness ==
    /\ prog = "bin" /\ pa_enable /\ pc = "send_config"
    /\ wrote = bin_configure_radio_rx /\ rev = <<ExpectedRevision>>

\* C27: when main has returned, with Ok or with an error, the PA enable
\* output is false and the chip is not in RX mode: if the output was ever
\* set true it was set back to false and the chip was reset.  (The output
\* is set false only at line 413, after the loop, so a main that returned
\* with the output false after it was true has been in RX mode.)
C27_PaNeverLeftEnabled ==
    pc \in {"done", "failed"} => (~pa_enable /\ mode # "rx")

\* C28: a read_packet call that finds FIFOCOUNT = 0 reads nothing from the
\* FIFO and returns Ok, and process_chunk given a chunk that is not a DATA
\* chunk returns Ok; both leave the accumulator as it was and send
\* nothing.
C28_NoDataChangesNothing ==
    [][ /\ (pc = "read" /\ fifo = << >> /\ pc' # "failed")
             => (/\ last'.op = "empty"
                 /\ pc' = "drain" /\ result' = "Ok"
                 /\ packet' = packet /\ uplink' = uplink
                 /\ fifo' = fifo /\ chunks' = chunks /\ nread' = nread)
        /\ (pc = "chunks" /\ chunks # << >> /\ Head(chunks).kind # "DATA")
             => (/\ last'.op = "other"
                 /\ pc' \in {"chunks", "drain"} /\ result' = "Ok"
                 /\ packet' = packet /\ uplink' = uplink) ]_vars

C28_Witness ==
    /\ pc = "drain" /\ last.op = "empty" /\ result = "Ok"
    /\ processed = <<DataChunk({"PKTSTART"}, SamplePayload), OtherChunk>>
    /\ packet = SamplePayload /\ uplink = << >>

====
